---- MODULE Spec2Model ----
(***************************************************************************)
(* Model of cargo-download's command line handling (src/args.rs):          *)
(* parse_from_argv, the clap grammar declared by create_parser,            *)
(* Options::try_from, Crate::from_str / Display, CrateVersion::from_str /  *)
(* Display and Output::from.                                               *)
(*                                                                         *)
(* A Rust string is a sequence of one-character strings, so that           *)
(* splitting, trimming, prefix tests, number parsing and rendering are      *)
(* computed the way the code computes them.                                *)
(***************************************************************************)
EXTENDS Integers, Sequences, FiniteSets, TLC

VARIABLES argv, pc, normed, matches, crate, result, text, reparsed

vars == <<argv, pc, normed, matches, crate, result, text, reparsed>>

----------------------------------------------------------------------------
(* Bounds of the checked input space.                                      *)

\* longest argument tail (after the binary name) of the free-form inputs
MaxArgs == 5
\* longest name part of a crate token
MaxName == 3
\* longest value handed to the output option
MaxOut == 3

----------------------------------------------------------------------------
(* Characters and strings.                                                 *)

Letters == {"a","b","c","d","e","f","g","h","i","j","k","l","m","n","o","p",
            "q","r","s","t","u","v","w","x","y","z","H","V","X"}

Digits == {"0","1","2","3","4","5","6","7","8","9"}

\* char::is_whitespace, on the characters the inputs use
IsWhitespace(c) == c \in {" ", "\t"}

\* char::is_alphanumeric
IsAlphanumeric(c) == c \in Letters \cup Digits

\* str::starts_with
StartsWith(s, p) == Len(s) >= Len(p) /\ SubSeq(s, 1, Len(p)) = p

\* the sub-string from (1-based) index i to the end, s[i-1..] in Rust
From(s, i) == SubSeq(s, i, Len(s))

\* str::trim: drop leading and trailing whitespace
Trim(s) ==
    LET keep == {i \in 1..Len(s) : ~IsWhitespace(s[i])}
    IN  IF keep = {} THEN <<>>
        ELSE LET lo == CHOOSE i \in keep : \A j \in keep : i <= j
                 hi == CHOOSE i \in keep : \A j \in keep : j <= i
             IN  SubSeq(s, lo, hi)

\* index of the first occurrence of character c in s, 0 when there is none
FirstIndex(s, c) ==
    LET at == {i \in 1..Len(s) : s[i] = c}
    IN  IF at = {} THEN 0 ELSE CHOOSE i \in at : \A j \in at : i <= j

\* str::splitn(2, c): at most two parts, cut at the first c
SplitN2(s, c) ==
    LET k == FirstIndex(s, c)
    IN  IF k = 0 THEN <<s>> ELSE <<SubSeq(s, 1, k - 1), From(s, k + 1)>>

\* str::split(c): all the parts
RECURSIVE Split(_, _)
\* the part before the first c (at index k), then the parts of the rest
SplitAt(s, c, k) ==
    IF k = 0 THEN <<s>> ELSE <<SubSeq(s, 1, k - 1)>> \o Split(From(s, k + 1), c)

Split(s, c) == SplitAt(s, c, FirstIndex(s, c))

\* str::trim_left_matches(c)
RECURSIVE TrimLeftMatches(_, _)
TrimLeftMatches(s, c) ==
    IF s # <<>> /\ Head(s) = c THEN TrimLeftMatches(Tail(s), c) ELSE s

DigitVal(c) ==
    CASE c = "0" -> 0 [] c = "1" -> 1 [] c = "2" -> 2 [] c = "3" -> 3
      [] c = "4" -> 4 [] c = "5" -> 5 [] c = "6" -> 6 [] c = "7" -> 7
      [] c = "8" -> 8 [] c = "9" -> 9

DigitChar(n) ==
    CASE n = 0 -> "0" [] n = 1 -> "1" [] n = 2 -> "2" [] n = 3 -> "3"
      [] n = 4 -> "4" [] n = 5 -> "5" [] n = 6 -> "6" [] n = 7 -> "7"
      [] n = 8 -> "8" [] n = 9 -> "9"

\* a numeric identifier of a version: 0, or digits without a leading zero
IsNumeric(s) ==
    /\ s # <<>>
    /\ \A i \in 1..Len(s) : s[i] \in Digits
    /\ (Len(s) > 1 => s[1] # "0")

\* the value of a string of digits
RECURSIVE ParseNum(_)
ParseNum(s) ==
    IF s = <<>> THEN 0
    ELSE 10 * ParseNum(SubSeq(s, 1, Len(s) - 1)) + DigitVal(s[Len(s)])

\* the decimal rendering of a number ({} of an integer)
RECURSIVE NumToStr(_)
NumToStr(n) ==
    IF n < 10 THEN <<DigitChar(n)>>
    ELSE NumToStr(n \div 10) \o <<DigitChar(n % 10)>>

----------------------------------------------------------------------------
(* Result and Option values.                                               *)

Ok(v) == [tag |-> "Ok", val |-> v]

Err(e) == [tag |-> "Err", err |-> e]

None == [tag |-> "None"]

Some(v) == [tag |-> "Some", val |-> v]

\* Option::map
MapOption(o, F(_)) == IF o.tag = "Some" THEN Some(F(o.val)) ELSE None

----------------------------------------------------------------------------
(* The semver values CrateVersion wraps: Version (major.minor.patch) and   *)
(* VersionReq (a list of comparator predicates).  NoPart stands for an     *)
(* absent minor or patch of a predicate.                                   *)

NoPart == -1

IsWildcardPart(s) == s \in {<<"*">>, <<"x">>, <<"X">>}

\* Version::from_str: MAJOR.MINOR.PATCH of numeric identifiers, surrounding
\* whitespace allowed; anything else is a SemVerError
VersionOfParts(parts, s) ==
    IF Len(parts) = 3 /\ \A i \in 1..3 : IsNumeric(parts[i])
    THEN Ok([major |-> ParseNum(parts[1]),
             minor |-> ParseNum(parts[2]),
             patch |-> ParseNum(parts[3])])
    ELSE Err([tag |-> "SemVerError", input |-> s])

Version_from_str(s) == VersionOfParts(Split(Trim(s), "."), s)

\* Display of Version
Version_fmt(v) ==
    NumToStr(v.major) \o <<".">> \o NumToStr(v.minor) \o <<".">> \o NumToStr(v.patch)

\* the comparison operator a predicate starts with, <<>> when it has none
PredicateOp(t) ==
    IF StartsWith(t, <<">", "=">>) THEN <<">", "=">>
    ELSE IF StartsWith(t, <<"<", "=">>) THEN <<"<", "=">>
    ELSE IF t # <<>> /\ t[1] \in {"=", ">", "<", "~", "^"} THEN <<t[1]>>
    ELSE <<>>

\* one comparator of a requirement: [op] MAJOR[.MINOR[.PATCH]], where MINOR
\* and PATCH may be wildcards; the default operator is the caret
PredicatePart(parts, i) ==
    IF i > Len(parts) \/ IsWildcardPart(parts[i]) THEN NoPart
    ELSE ParseNum(parts[i])

PredicateWild(parts, i) == i <= Len(parts) /\ IsWildcardPart(parts[i])

PredicateOfParts(op, parts, p) ==
    IF /\ Len(parts) \in 1..3
       /\ IsNumeric(parts[1])
       /\ \A i \in 2..Len(parts) : IsNumeric(parts[i]) \/ IsWildcardPart(parts[i])
    THEN Ok([op    |-> IF PredicateWild(parts, 2) THEN <<"W", "m">>
                       ELSE IF PredicateWild(parts, 3) THEN <<"W", "p">>
                       ELSE IF op = <<>> THEN <<"^">> ELSE op,
             major |-> PredicatePart(parts, 1),
             minor |-> PredicatePart(parts, 2),
             patch |-> PredicatePart(parts, 3)])
    ELSE Err(p)

PredicateOfTrimmed(t, op, p) ==
    PredicateOfParts(op, Split(Trim(From(t, Len(op) + 1)), "."), p)

ParsePredicate(p) == PredicateOfTrimmed(Trim(p), PredicateOp(Trim(p)), p)

\* VersionReq::any(): no predicate at all
VersionReq_any == [predicates |-> <<>>]

ParsePredicates(ps) == [i \in 1..Len(ps) |-> ParsePredicate(ps[i])]

ReqOfPredicates(rs, s) ==
    IF \A i \in 1..Len(rs) : rs[i].tag = "Ok"
    THEN Ok([predicates |-> [i \in 1..Len(rs) |-> rs[i].val]])
    ELSE Err([tag |-> "ReqParseError", input |-> s])

\* VersionReq::from_str: the empty string and a lone wildcard are the major
\* wildcard; otherwise comma-separated predicates, each of which must parse
VersionReq_from_str(s) ==
    IF s = <<>> \/ IsWildcardPart(s)
    THEN Ok([predicates |-> <<[op |-> <<"*">>, major |-> 0,
                               minor |-> NoPart, patch |-> NoPart]>>])
    ELSE ReqOfPredicates(ParsePredicates(Split(s, ",")), s)

\* Display of one predicate
Predicate_fmt(p) ==
    IF p.op = <<"*">> THEN <<"*">>
    ELSE IF p.op = <<"W", "m">> THEN NumToStr(p.major) \o <<".", "*">>
    ELSE IF p.op = <<"W", "p">>
         THEN NumToStr(p.major) \o <<".">>
              \o (IF p.minor = NoPart THEN <<"*">> ELSE NumToStr(p.minor))
              \o <<".", "*">>
    ELSE p.op \o NumToStr(p.major)
         \o (IF p.minor = NoPart THEN <<>> ELSE <<".">> \o NumToStr(p.minor))
         \o (IF p.patch = NoPart THEN <<>> ELSE <<".">> \o NumToStr(p.patch))

\* Display of VersionReq: "*" for no predicate, else the predicates joined
\* by ", "
RECURSIVE JoinPredicates(_)
JoinPredicates(ps) ==
    IF Len(ps) = 1 THEN Predicate_fmt(ps[1])
    ELSE Predicate_fmt(ps[1]) \o <<",", " ">> \o JoinPredicates(Tail(ps))

VersionReq_fmt(r) ==
    IF r.predicates = <<>> THEN <<"*">> ELSE JoinPredicates(r.predicates)

----------------------------------------------------------------------------
(* CrateVersion, Crate and Output.                                          *)

Exact(v) == [tag |-> "Exact", v |-> v]

Other(r) == [tag |-> "Other", r |-> r]

\* CrateVersionError::Syntax / ::Semantics, wrapping the semver error
Syntax(e) == [tag |-> "Syntax", cause |-> e]

Semantics(e) == [tag |-> "Semantics", cause |-> e]

\* Ok(CrateVersion::Exact(version)) of Version::from_str(..)?
ExactOrSyntax(version) ==
    IF version.tag = "Ok" THEN Ok(Exact(version.val)) ELSE Err(Syntax(version.err))

\* Ok(CrateVersion::Other(version_req)) of VersionReq::from_str(..)?
OtherOrSemantics(version_req) ==
    IF version_req.tag = "Ok" THEN Ok(Other(version_req.val))
    ELSE Err(Semantics(version_req.err))

\* (mutant) '=' looked for anywhere in the version sub-string
CrateVersion_from_str_Contains(s) ==
    IF FirstIndex(s, "=") # 0
    THEN ExactOrSyntax(Version_from_str(From(s, 2)))
    ELSE OtherOrSemantics(VersionReq_from_str(s))

\* CrateVersion::from_str
CrateVersion_from_str(s) ==
    IF StartsWith(s, <<"=">>)
    THEN ExactOrSyntax(Version_from_str(From(s, 2)))
    ELSE OtherOrSemantics(VersionReq_from_str(s))

\* (mutant) the exact version rendered without its '='
CrateVersion_fmt_NoEquals(v) ==
    IF v.tag = "Exact" THEN Version_fmt(v.v) ELSE VersionReq_fmt(v.r)

\* Display of CrateVersion
CrateVersion_fmt(v) ==
    IF v.tag = "Exact" THEN <<"=">> \o Version_fmt(v.v) ELSE VersionReq_fmt(v.r)

\* CrateError::Name / ::Version
CrateError_Name(n) == [tag |-> "Name", name |-> n]

CrateError_Version(e) == [tag |-> "Version", cause |-> e]

\* the character test of a bare crate name
ValidNameChar(c) == IsAlphanumeric(c) \/ c = "-" \/ c = "_"

\* (mutant) the parts left untrimmed
TrimEach_None(raw) == raw

\* .map(|p| p.trim()).collect()
TrimEach(raw) == [i \in 1..Len(raw) |-> Trim(raw[i])]

\* name.chars().all(..)
ValidName(name) == \A i \in 1..Len(name) : ValidNameChar(name[i])

\* Ok(Crate{name, version}) of CrateVersion::from_str(parts[1])?
CrateWithVersion(name, version) ==
    IF version.tag = "Ok" THEN Ok([name |-> name, version |-> version.val])
    ELSE Err(CrateError_Version(version.err))

\* the body of Crate::from_str once the token is split and trimmed
CrateOfParts(parts) ==
    IF Len(parts) < 2
    THEN IF ValidName(parts[1])
         THEN Ok([name |-> parts[1], version |-> Other(VersionReq_any)])
         ELSE Err(CrateError_Name(parts[1]))
    ELSE CrateWithVersion(parts[1], CrateVersion_from_str(parts[2]))

\* Crate::from_str
Crate_from_str(s) == CrateOfParts(TrimEach(SplitN2(s, "=")))

\* Display of Crate
Crate_fmt(c) == c.name \o <<"=">> \o CrateVersion_fmt(c.version)

Stdout == [tag |-> "Stdout"]

Path(p) == [tag |-> "Path", path |-> p]

\* (mutant) every string that starts with a dash taken for stdout
Output_from_Prefix(s) == IF StartsWith(s, <<"-">>) THEN Stdout ELSE Path(s)

\* Output::from(&str)
Output_from(s) == IF s = <<"-">> THEN Stdout ELSE Path(s)

----------------------------------------------------------------------------
(* The argument grammar declared by create_parser, as clap matches it.     *)
(* Every grammar failure (unknown flag, missing or surplus positional,     *)
(* option without value, repeated non-multiple argument, the               *)
(* verbose/quiet conflict, help and version requests) is a clap::Error.    *)

S_download == <<"d","o","w","n","l","o","a","d">>

S_extract == <<"e","x","t","r","a","c","t">>

S_output == <<"o","u","t","p","u","t">>

S_verbose == <<"v","e","r","b","o","s","e">>

S_quiet == <<"q","u","i","e","t">>

\* the parser's state before the first argument
ParserStart ==
    [pos |-> <<>>, extract |-> 0, out |-> <<>>, verbose |-> 0, quiet |-> 0,
     needs_val |-> FALSE, trailing |-> FALSE, err |-> FALSE]

\* an argument that starts a new flag or option rather than being a value:
\* "--..." or "-..." longer than the lone dash
IsNewArg(a) ==
    StartsWith(a, <<"-", "-">>) \/ (StartsWith(a, <<"-">>) /\ Len(a) # 1)

\* a cluster of short flags (the text after the single dash): x, v and q
\* count an occurrence each; o takes the rest of the cluster as its value,
\* or the next argument when nothing is left; any other letter (H and V,
\* the help and version shorthands, included) ends matching with an error
RECURSIVE ParseShort(_, _)
ParseShort(st, cl) ==
    IF cl = <<>> THEN st
    ELSE LET c == Head(cl) rest == Tail(cl)
         IN  IF c = "x" THEN ParseShort([st EXCEPT !.extract = @ + 1], rest)
             ELSE IF c = "v" THEN ParseShort([st EXCEPT !.verbose = @ + 1], rest)
             ELSE IF c = "q" THEN ParseShort([st EXCEPT !.quiet = @ + 1], rest)
             ELSE IF c = "o"
                  THEN IF rest = <<>> THEN [st EXCEPT !.needs_val = TRUE]
                       ELSE [st EXCEPT !.out = Append(@, TrimLeftMatches(rest, "="))]
             ELSE [st EXCEPT !.err = TRUE]

\* a long argument (the text after the two dashes), with an optional =VALUE
ParseLong(st, body) ==
    LET k    == FirstIndex(body, "=")
        name == IF k = 0 THEN body ELSE SubSeq(body, 1, k - 1)
    IN  IF k = 0 /\ name = S_extract THEN [st EXCEPT !.extract = @ + 1]
        ELSE IF k = 0 /\ name = S_verbose THEN [st EXCEPT !.verbose = @ + 1]
        ELSE IF k = 0 /\ name = S_quiet THEN [st EXCEPT !.quiet = @ + 1]
        ELSE IF name = S_output
             THEN IF k = 0 THEN [st EXCEPT !.needs_val = TRUE]
                  ELSE [st EXCEPT !.out =
                            Append(@, TrimLeftMatches(From(body, k + 1), "="))]
        ELSE [st EXCEPT !.err = TRUE]

\* one argument of the command line
ParseArg(st, a) ==
    IF st.err THEN st
    ELSE IF st.trailing THEN [st EXCEPT !.pos = Append(@, a)]
    ELSE IF st.needs_val
         THEN IF IsNewArg(a) THEN [st EXCEPT !.err = TRUE]
              ELSE [st EXCEPT !.out = Append(@, a), !.needs_val = FALSE]
    ELSE IF a = <<"-", "-">> THEN [st EXCEPT !.trailing = TRUE]
    ELSE IF StartsWith(a, <<"-", "-">>) THEN ParseLong(st, From(a, 3))
    ELSE IF IsNewArg(a) THEN ParseShort(st, From(a, 2))
    ELSE [st EXCEPT !.pos = Append(@, a)]

RECURSIVE ParseArgs(_, _)
ParseArgs(st, args) ==
    IF args = <<>> THEN st ELSE ParseArgs(ParseArg(st, Head(args)), Tail(args))

\* the declared constraints: exactly one CRATE positional (required), extract
\* and output not multiple, output with its value, verbose and quiet in
\* conflict with each other
GrammarAccepts(st) ==
    /\ ~st.err
    /\ ~st.needs_val
    /\ Len(st.pos) = 1
    /\ st.extract <= 1
    /\ Len(st.out) <= 1
    /\ ~(st.verbose > 0 /\ st.quiet > 0)

\* Parser::get_matches_from_safe: the first element is the binary name
MatchesOf(st) ==
    IF GrammarAccepts(st)
    THEN Ok([crate   |-> st.pos[1],
             extract |-> st.extract,
             output  |-> st.out,
             verbose |-> st.verbose,
             quiet   |-> st.quiet])
    ELSE Err([tag |-> "clap"])

GetMatches(args) ==
    MatchesOf(ParseArgs(ParserStart, IF args = <<>> THEN <<>> ELSE Tail(args)))

\* ArgMatches::occurrences_of, ::is_present, ::value_of
OccurrencesOf(m, flag) == m[flag]

IsPresent(m, flag) == m[flag] > 0

ValueOf_output(m) == IF m.output = <<>> THEN None ELSE Some(m.output[1])

----------------------------------------------------------------------------
(* Options::try_from and parse_from_argv.                                  *)

ArgsError_Parse(e) == [tag |-> "Parse", cause |-> e]

ArgsError_Crate(e) == [tag |-> "Crate", cause |-> e]

CantExtractToStdout == [tag |-> "CantExtractToStdout"]

\* Options::try_from: the crate error first, then the cross-field check
\* (mutant) the cross-field check left out
Options_assemble_NoCheck(verbosity, crate_, extract, output) ==
    IF crate_.tag = "Err" THEN Err(ArgsError_Crate(crate_.err))
    ELSE Ok([verbosity |-> verbosity, crate_ |-> crate_.val,
             extract |-> extract, output |-> output])

\* (mutant) the cross-field check made before the crate error is returned
Options_assemble_CheckFirst(verbosity, crate_, extract, output) ==
    IF extract /\ output = Some(Stdout) THEN Err(CantExtractToStdout)
    ELSE IF crate_.tag = "Err" THEN Err(ArgsError_Crate(crate_.err))
    ELSE Ok([verbosity |-> verbosity, crate_ |-> crate_.val,
             extract |-> extract, output |-> output])

Options_assemble(verbosity, crate_, extract, output) ==
    IF crate_.tag = "Err" THEN Err(ArgsError_Crate(crate_.err))
    ELSE IF extract /\ output = Some(Stdout) THEN Err(CantExtractToStdout)
    ELSE Ok([verbosity |-> verbosity, crate_ |-> crate_.val,
             extract |-> extract, output |-> output])

\* (mutant) the two counts added instead of subtracted
Options_try_from_Sum(m) ==
    Options_assemble(OccurrencesOf(m, "verbose") + OccurrencesOf(m, "quiet"),
                     Crate_from_str(m.crate),
                     IsPresent(m, "extract"),
                     MapOption(ValueOf_output(m), Output_from))

Options_try_from(m) ==
    Options_assemble(OccurrencesOf(m, "verbose") - OccurrencesOf(m, "quiet"),
                     Crate_from_str(m.crate),
                     IsPresent(m, "extract"),
                     MapOption(ValueOf_output(m), Output_from))

\* Options::verbose, Options::quiet
Options_verbose(o) == o.verbosity > 0

Options_quiet(o) == o.verbosity < 0

\* (mutant) every "download" after the binary name removed
RemoveSubcommand_Every(a) ==
    IF a = <<>> THEN a
    ELSE <<a[1]>> \o SelectSeq(Tail(a), LAMBDA x : x # S_download)

\* the removal of the subcommand name: index 1 of the argument vector
RemoveSubcommand(a) ==
    IF Len(a) >= 2 /\ a[2] = S_download
    THEN <<a[1]>> \o SubSeq(a, 3, Len(a))
    ELSE a

\* parse_from_argv as a function of its argument
OptionsOfMatches(m) ==
    IF m.tag = "Err" THEN Err(ArgsError_Parse(m.err)) ELSE Options_try_from(m.val)

ParseFromArgvResult(a) == OptionsOfMatches(GetMatches(RemoveSubcommand(a)))

----------------------------------------------------------------------------
(* The inputs.                                                             *)

\* all sequences over S of length at most n
SeqsUpTo(S, n) == UNION {[1..k -> S] : k \in 0..n}

\* the binary name, argv[0]
Bin == <<"c","a","r","g","o">>

\* the arguments of the free-form command lines: the subcommand name, a
\* valid and an invalid crate token, every declared flag, the lone dash and
\* an undeclared flag
ArgTokens ==
    {S_download, <<"a">>, <<"/">>, <<"-","x">>, <<"-","o">>, <<"-">>,
     <<"-","v">>, <<"-","q">>, <<"-","z">>}

Argvs == {<<Bin>> \o t : t \in SeqsUpTo(ArgTokens, MaxArgs)}

\* name parts of crate tokens: letters, the two other kinds of character
\* (allowed '-', forbidden '/') and blanks, in every arrangement
NameChars == {"a", "-", "/", " "}

NameParts == SeqsUpTo(NameChars, MaxName)

VersionNumbers == {<<"0">>, <<"1">>, <<"1","2">>}

ExactSuffixes ==
    {<<"=","=">> \o x \o <<".">> \o y \o <<".">> \o z :
        x \in VersionNumbers, y \in VersionNumbers, z \in VersionNumbers}

\* what follows the name in a crate token: nothing, or '=' and a version
\* sub-string (exact, range, blank-padded, malformed)
VersionSuffixes ==
    ExactSuffixes \cup
    {<<>>,
     <<"=">>,
     <<"=","1",".","0",".","0">>,
     <<"="," ","1",".","0",".","0"," ">>,
     <<" ","="," ","1",".","0",".","0"," ">>,
     <<"=","^","1",".","2">>,
     <<"=","~","0",".","3">>,
     <<"=",">","=","1",",","<","2">>,
     <<"=","*">>,
     <<"=","1",".","*">>,
     <<"=","/">>,
     <<"=","^">>,
     <<"=","1",".","0",".","0","=">>,
     <<"=","=">>,
     <<"=","=","/">>,
     <<"=","=","1",".","0">>,
     <<"=","=","0","1",".","0",".","0">>,
     <<"=","=","^","1",".","0",".","0">>,
     <<"=","=","=","1",".","0",".","0">>,
     <<"="," ","=","1",".","0",".","0">>,
     <<"=","=","1",".","0",".","0"," ">>}

CrateTokens == {n \o v : n \in NameParts, v \in VersionSuffixes}

\* what accompanies the crate token: nothing, or extraction to stdout
CrateTails == {<<>>, <<<<"-","x">>, <<"-","o">>, <<"-">>>>}

CrateArgvs == {<<Bin, c>> \o t : c \in CrateTokens, t \in CrateTails}

\* values of the output option, and the three ways of passing one
OutChars == {"-", "a", "/"}

OutValues == SeqsUpTo(OutChars, MaxOut)

OutputArgs ==
    {<<>>}
    \cup {<<<<"-","o">>, v>> : v \in OutValues}
    \cup {<<<<"-","o">> \o v>> : v \in OutValues}
    \cup {<<<<"-","-">> \o S_output \o <<"=">> \o v>> : v \in OutValues}

OutputArgvs ==
    {<<Bin, <<"a">>>> \o x \o o : x \in {<<>>, <<<<"-","x">>>>}, o \in OutputArgs}

----------------------------------------------------------------------------
(* The state machine: one call of parse_from_argv, followed by the         *)
(* rendering of the parsed crate and the parsing of the rendered text.     *)

InitOn(inputs) ==
    /\ argv \in inputs
    /\ pc = "start"
    /\ normed = <<>>
    /\ matches = None
    /\ crate = None
    /\ result = None
    /\ text = None
    /\ reparsed = None

Init == InitOn(Argvs)

InitCrate == InitOn(CrateArgvs)

InitOutput == InitOn(OutputArgvs)

\* parse_from_argv up to the call of Options::try_from
Matched(m) ==
    IF m.tag = "Err"
    THEN /\ result' = Err(ArgsError_Parse(m.err))
         /\ pc' = "done"
         /\ UNCHANGED matches
    ELSE /\ matches' = Some(m.val)
         /\ pc' = "try_from"
         /\ UNCHANGED result

ParseFromArgv ==
    /\ pc = "start"
    /\ normed' = RemoveSubcommand(argv)
    /\ Matched(GetMatches(RemoveSubcommand(argv)))
    /\ UNCHANGED <<argv, crate, text, reparsed>>

\* Options::try_from(matches), whose result parse_from_argv returns
TryFrom ==
    /\ pc = "try_from"
    /\ crate' = Some(Crate_from_str(matches.val.crate))
    /\ result' = Options_try_from(matches.val)
    /\ pc' = "done"
    /\ UNCHANGED <<argv, normed, matches, text, reparsed>>

\* Display of the crate of the returned Options
Fmt ==
    /\ pc = "done"
    /\ result.tag = "Ok"
    /\ text' = Some(Crate_fmt(result.val.crate_))
    /\ pc' = "rendered"
    /\ UNCHANGED <<argv, normed, matches, crate, result, reparsed>>

\* Crate::from_str of the rendered text
Reparse ==
    /\ pc = "rendered"
    /\ reparsed' = Some(Crate_from_str(text.val))
    /\ pc' = "reparsed"
    /\ UNCHANGED <<argv, normed, matches, crate, result, text>>

Next == ParseFromArgv \/ TryFrom \/ Fmt \/ Reparse

Spec == Init /\ [][Next]_vars

SpecCrate == InitCrate /\ [][Next]_vars

SpecOutput == InitOutput /\ [][Next]_vars

----------------------------------------------------------------------------
(* Observations the properties below are stated with.                      *)

\* parse_from_argv has returned
Returned == pc \in {"done", "rendered", "reparsed"}

\* Options::try_from has run
Assembled == Returned /\ matches.tag = "Some"

\* the crate token the grammar handed to Options::try_from
Token == matches.val.crate

ExtractFlagPresent == matches.val.extract > 0

OutputSupplied == matches.val.output # <<>>

OutputIsDash == matches.val.output = << <<"-">> >>

Substrings(s) == {SubSeq(s, i, j) : i \in 1..(Len(s) + 1), j \in 0..Len(s)}

\* t is s without its leading and trailing blanks, said without str::trim
IsTrimOf(t, s) ==
    \E i \in 1..(Len(s) + 1), j \in 0..Len(s) :
        /\ t = SubSeq(s, i, j)
        /\ \A k \in 1..(i - 1) : IsWhitespace(s[k])
        /\ \A k \in (j + 1)..Len(s) : IsWhitespace(s[k])
        /\ (t # <<>> => ~IsWhitespace(t[1]) /\ ~IsWhitespace(t[Len(t)]))

\* the name part of a token: the text before its first '=', or all of it
NamePartOf(tok) ==
    IF \E k \in 1..Len(tok) : tok[k] = "="
    THEN SubSeq(tok, 1, (CHOOSE k \in 1..Len(tok) :
                            tok[k] = "=" /\ \A i \in 1..(k - 1) : tok[i] # "=") - 1)
    ELSE tok

\* the text after the first '=' of a token that has one
VersionPartOf(tok) ==
    SubSeq(tok, 1 + Len(NamePartOf(tok)) + 1, Len(tok))

HasEquals(tok) == \E k \in 1..Len(tok) : tok[k] = "="

AllowedNameChar(c) == c \in Letters \cup Digits \cup {"-", "_"}

IsCrateError(r, kind) == r.tag = "Err" /\ r.err.tag = "Crate" /\ r.err.cause.tag = kind

IsParseError(r) == r.tag = "Err" /\ r.err.tag = "Parse"

----------------------------------------------------------------------------
(* C1.  Extraction to standard output.                                     *)

----------------------------------------------------------------------------
(* C2.  Names are validated on every path.                                 *)

\* C2: with or without a version part, a parsed Crate's name holds allowed
\* characters only, and a token whose trimmed name part holds another
\* character fails with CrateError::Name.
C2_NameValidated ==
    Assembled =>
        /\ (crate.val.tag = "Ok" =>
                \A i \in 1..Len(crate.val.val.name) :
                    AllowedNameChar(crate.val.val.name[i]))
        /\ \A n \in Substrings(NamePartOf(Token)) :
                (IsTrimOf(n, NamePartOf(Token))
                    /\ \E i \in 1..Len(n) : ~AllowedNameChar(n[i]))
                => (crate.val.tag = "Err" /\ crate.val.err.tag = "Name")

----------------------------------------------------------------------------
(* C3.  Empty names.                                                       *)

\* C3: a token whose name part is empty after trimming fails with
\* CrateError::Name, so every parsed Crate has a non-empty name.
C3_NameNonEmpty ==
    Assembled =>
        /\ (crate.val.tag = "Ok" => crate.val.val.name # <<>>)
        /\ (IsTrimOf(<<>>, NamePartOf(Token))
                => (crate.val.tag = "Err" /\ crate.val.err.tag = "Name"))

----------------------------------------------------------------------------
(* C4.  Verbosity.                                                         *)

\* occurrences of the short flag c on a command line, counted on the
\* arguments themselves: the c's of every cluster of flag letters
RECURSIVE CountChar(_, _)
CountChar(s, c) ==
    IF s = <<>> THEN 0
    ELSE (IF Head(s) = c THEN 1 ELSE 0) + CountChar(Tail(s), c)

IsFlagCluster(a) ==
    /\ Len(a) >= 2
    /\ a[1] = "-"
    /\ \A i \in 2..Len(a) : a[i] \in {"x", "v", "q"}

RECURSIVE FlagCount(_, _)
FlagCount(args, c) ==
    IF args = <<>> THEN 0
    ELSE (IF IsFlagCluster(Head(args)) THEN CountChar(Head(args), c) ELSE 0)
         + FlagCount(Tail(args), c)

\* C4: for every accepted invocation, verbosity is the number of -v minus
\* the number of -q on the command line; verbose() and quiet() are never
\* both true, and the two counts are never both nonzero.
C4_Verbosity ==
    (Assembled /\ result.tag = "Ok") =>
        /\ result.val.verbosity = FlagCount(argv, "v") - FlagCount(argv, "q")
        /\ ~(Options_verbose(result.val) /\ Options_quiet(result.val))
        /\ ~(FlagCount(argv, "v") > 0 /\ FlagCount(argv, "q") > 0)

C4_Witness ==
    /\ Assembled /\ result.tag = "Ok"
    /\ FlagCount(argv, "q") = 2
    /\ result.val.verbosity = -2

----------------------------------------------------------------------------
(* C5.  The subcommand name.                                               *)

\* the argument vector without its element at index 1
WithoutIndex1(a) == <<a[1]>> \o SubSeq(a, 3, Len(a))

InvokedAsSubcommand == Len(argv) >= 2 /\ argv[2] = S_download

\* exactly the element at index 1 is removed, and only when it is the
\* literal "download"; every other element stays where it was
C5_Normalization ==
    /\ InvokedAsSubcommand =>
            /\ Len(normed) = Len(argv) - 1
            /\ normed[1] = argv[1]
            /\ \A i \in 2..Len(normed) : normed[i] = argv[i + 1]
    /\ ~InvokedAsSubcommand => normed = argv

\* C5 as stated: the normalization, and for every tail t the same result
\* for [bin, "download"] ++ t as for [bin] ++ t, and the crate "download"
\* for [bin, "download", "download"].
C5_AsStated ==
    Returned =>
        /\ C5_Normalization
        /\ (InvokedAsSubcommand
                => result = ParseFromArgvResult(WithoutIndex1(argv)))
        /\ (argv = <<Bin, S_download, S_download>>
                => result.tag = "Ok" /\ result.val.crate_.name = S_download)

\* C5 amended: the results agree for every tail t that does not itself
\* begin with "download" (such a tail loses its first element when it
\* follows the binary name directly).  The rest as stated.
C5_Subcommand ==
    Returned =>
        /\ C5_Normalization
        /\ (InvokedAsSubcommand /\ ~(Len(argv) >= 3 /\ argv[3] = S_download)
                => result = ParseFromArgvResult(WithoutIndex1(argv)))
        /\ (argv = <<Bin, S_download, S_download>>
                => result.tag = "Ok" /\ result.val.crate_.name = S_download)

C5_Witness ==
    /\ Returned
    /\ argv = <<Bin, S_download, <<"a">>, S_download>>
    /\ normed = <<Bin, <<"a">>, S_download>>
    /\ IsParseError(result)

----------------------------------------------------------------------------
(* C9.  The order of the stages.                                           *)

Has(a) == \E i \in 2..Len(argv) : argv[i] = a

\* C9: a grammar failure is returned as ArgsError::Parse without Options
\* assembly having run; a crate failure is returned as ArgsError::Crate
\* whatever the extraction and output fields are; CantExtractToStdout is
\* returned only when the grammar matched and the crate token parsed.  An
\* invalid crate token with -x and -o - gives the crate error; -v with -q
\* (and an unknown flag) gives the grammar error.
C9_StageOrder ==
    Returned =>
        /\ IsParseError(result) <=> matches = None
        /\ matches = None => crate = None
        /\ (Has(<<"-","v">>) /\ Has(<<"-","q">>)) => IsParseError(result)
        /\ Has(<<"-","z">>) => IsParseError(result)
        /\ (Assembled /\ crate.val.tag = "Err")
                => result = Err(ArgsError_Crate(crate.val.err))
        /\ result = Err(CantExtractToStdout)
                => (Assembled /\ crate.val.tag = "Ok")
        /\ argv = <<Bin, <<"/">>, <<"-","x">>, <<"-","o">>, <<"-">>>>
                => IsCrateError(result, "Name")
        /\ argv = <<Bin, <<"-","v">>, <<"-","q">>, <<"-","x">>, <<"-","o">>, <<"-">>>>
                => IsParseError(result)

C9_Witness ==
    /\ Returned
    /\ argv = <<Bin, <<"/">>, <<"-","x">>, <<"-","o">>, <<"-">>>>
    /\ ExtractFlagPresent /\ OutputIsDash
    /\ IsCrateError(result, "Name")

----------------------------------------------------------------------------
(* C6.  Exact versions and range requirements.                             *)

\* the version sub-string of the token starts with '=': the first '=' of
\* the token is followed, after blanks only, by another '='
VersionPartStartsWithEquals(tok) ==
    \E j \in 1..Len(VersionPartOf(tok)) :
        /\ VersionPartOf(tok)[j] = "="
        /\ \A i \in 1..(j - 1) : IsWhitespace(VersionPartOf(tok)[i])

\* C6: a version sub-string that starts with '=' gives Exact or a
\* version-syntax error, any other gives Other or a version-semantics
\* error; the failure reaches the caller as
\* ArgsError::Crate(CrateError::Version(..)).
C6_VersionVariant ==
    (Assembled /\ HasEquals(Token)) =>
        /\ VersionPartStartsWithEquals(Token) =>
              \/ crate.val.tag = "Ok" /\ crate.val.val.version.tag = "Exact"
              \/ /\ crate.val.tag = "Err"
                 /\ crate.val.err.tag = "Version"
                 /\ crate.val.err.cause.tag = "Syntax"
        /\ ~VersionPartStartsWithEquals(Token) =>
              \/ crate.val.tag = "Ok" /\ crate.val.val.version.tag = "Other"
              \/ /\ crate.val.tag = "Err"
                 /\ crate.val.err.tag = "Version"
                 /\ crate.val.err.cause.tag = "Semantics"
        /\ crate.val.tag = "Err" =>
              /\ IsCrateError(result, "Version")
              /\ result.err.cause = crate.val.err

C6_Witness ==
    /\ Assembled
    /\ Token = <<"a","=","1",".","0",".","0","=">>
    /\ IsCrateError(result, "Version")
    /\ result.err.cause.cause.tag = "Semantics"

----------------------------------------------------------------------------
(* C7.  The output target.                                                 *)

\* C7: "-" maps to Stdout and every other string, the empty one and those
\* that only contain a dash included, to Path of that very string; no
\* output value makes the mapping fail (assembly fails on none but "-" with
\* extraction); output is None exactly when the option was not supplied.
C7_OutputMapping ==
    Assembled =>
        /\ (result.tag = "Err" => ExtractFlagPresent /\ OutputIsDash)
        /\ result.tag = "Ok" =>
              /\ result.val.output = None <=> ~OutputSupplied
              /\ OutputIsDash => result.val.output = Some(Stdout)
              /\ (OutputSupplied /\ ~OutputIsDash) =>
                    result.val.output
                        = Some([tag |-> "Path", path |-> matches.val.output[1]])

C7_Witness ==
    /\ Assembled
    /\ result.tag = "Ok"
    /\ matches.val.output = << <<"-","-">> >>
    /\ result.val.output = Some([tag |-> "Path", path |-> <<"-","-">>])

----------------------------------------------------------------------------
(* C8.  Parse, render, parse.                                              *)

\* the value of the numerals the exact versions are written with
NumeralValue(x) ==
    CASE x = <<"0">> -> 0 [] x = <<"1">> -> 1 [] x = <<"1","2">> -> 12

IsValidName(n) == n # <<>> /\ \A i \in 1..Len(n) : AllowedNameChar(n[i])

\* C8: for a valid name n and an exact version X.Y.Z the token n==X.Y.Z
\* parses to Crate{n, Exact(X.Y.Z)}, which renders as n==X.Y.Z, which
\* parses to the same Crate.
C8_RoundTrip ==
    (pc = "reparsed" /\ HasEquals(Token) /\ IsValidName(NamePartOf(Token))) =>
    \A x \in VersionNumbers, y \in VersionNumbers, z \in VersionNumbers :
        VersionPartOf(Token) = <<"=">> \o x \o <<".">> \o y \o <<".">> \o z
        => /\ crate.val =
                Ok([name |-> NamePartOf(Token),
                    version |-> [tag |-> "Exact",
                                 v |-> [major |-> NumeralValue(x),
                                        minor |-> NumeralValue(y),
                                        patch |-> NumeralValue(z)]]])
           /\ text.val = Token
           /\ reparsed.val = crate.val

C8_Witness ==
    /\ pc = "reparsed"
    /\ Token = <<"a","-","=","=","1","2",".","0",".","1">>
    /\ text.val = Token
    /\ reparsed.val = crate.val
    /\ crate.val.tag = "Ok"

----------------------------------------------------------------------------
(* C10.  Splitting and trimming the crate token.                           *)

\* C10: the token is cut at its first '=' only and both parts are trimmed:
\* without '=' it is a bare name with the version Other(any); with several
\* '=' the name is the text before the first and all the rest is the
\* version sub-string; blanks around either part change nothing, so that
\* " a = 1.0.0 " parses as "a=1.0.0" does.
C10_SplitAndTrim ==
    Assembled =>
        /\ (~HasEquals(Token) /\ crate.val.tag = "Ok") =>
              /\ IsTrimOf(crate.val.val.name, Token)
              /\ crate.val.val.version = Other(VersionReq_any)
        /\ (HasEquals(Token) /\ crate.val.tag = "Ok") =>
              IsTrimOf(crate.val.val.name, NamePartOf(Token))
        /\ HasEquals(Token) =>
              \A n \in Substrings(NamePartOf(Token)),
                 v \in Substrings(VersionPartOf(Token)) :
                  (IsTrimOf(n, NamePartOf(Token))
                        /\ IsTrimOf(v, VersionPartOf(Token)))
                  => crate.val = Crate_from_str(n \o <<"=">> \o v)
        /\ Token = <<" ","a"," ","="," ","1",".","0",".","0"," ">> =>
              crate.val =
                Ok([name |-> <<"a">>,
                    version |-> [tag |-> "Other",
                                 r |-> [predicates |->
                                    <<[op |-> <<"^">>, major |-> 1,
                                       minor |-> 0, patch |-> 0]>>]]])

C10_Witness ==
    /\ Assembled
    /\ Token = <<" ","a"," ","="," ","1",".","0",".","0"," ">>
    /\ crate.val.tag = "Ok"
    /\ crate.val = Crate_from_str(<<"a","=","1",".","0",".","0">>)

====
